---- MODULE Spec2Model ----
(***************************************************************************)
(* Model of the recipe catalogue (nicovece/nomalyze, src/recipes):         *)
(* the Recipe model (ingredient parsing, difficulty classification, save), *)
(* the wildcard search translation, the recipe_search view and the chart   *)
(* functions.                                                              *)
(*                                                                         *)
(* Text is modelled as a sequence of one-character strings, so that        *)
(* strip, split, replace, case folding and pattern matching are computed   *)
(* character by character as the code computes them.  Python's None is the *)
(* value None below, which is no sequence of characters.                   *)
(***************************************************************************)
EXTENDS Integers, Sequences, FiniteSets, TLC

VARIABLES
    db,        \* the recipes_recipe table: sequence of stored rows, in id order
    nextId,    \* the next primary key the table hands out
    session,   \* request.session of the one client session
    post,      \* request.POST of the last POST handled by recipe_search
    qs,        \* the rows the last POST's queryset evaluated to
    resp,      \* the response of the last request to recipe_search
    charted,   \* the calls of get_chart_with_colors the last request made
    arg,       \* the arguments of the function under call (function specifications)
    ret,       \* its result
    pc         \* which specification runs, and which function has been called

vars == <<db, nextId, session, post, qs, resp, charted, arg, ret, pc>>

-----------------------------------------------------------------------------
(* Bounds of the model *)

MaxLen == 5        \* longest generated ingredients string
MaxItems == 5      \* most items of a generated ingredient list
MaxTime == 12      \* largest generated cooking_time of the classifier calls

-----------------------------------------------------------------------------
(* Text *)

None == <<"None">>

UpperCase == <<"A","B","C","D","E","F","G","H","I","J","K","L","M",
               "N","O","P","Q","R","S","T","U","V","W","X","Y","Z">>
LowerCase == <<"a","b","c","d","e","f","g","h","i","j","k","l","m",
               "n","o","p","q","r","s","t","u","v","w","x","y","z">>

\* str.strip() with no argument removes these (the ASCII ones)
Whitespace == {" ", "\t", "\n", "\r"}

Falsy(s) == s = None \/ s = <<>>

RECURSIVE LStrip(_)
LStrip(s) ==
    IF s # <<>> /\ Head(s) \in Whitespace THEN LStrip(Tail(s)) ELSE s

RECURSIVE RStrip(_)
RStrip(s) ==
    IF s # <<>> /\ s[Len(s)] \in Whitespace
    THEN RStrip(SubSeq(s, 1, Len(s) - 1)) ELSE s

Strip(s) == RStrip(LStrip(s))

\* index of the first occurrence of character c in s, 0 when there is none
RECURSIVE FindChar(_, _, _)
FindChar(s, c, from) ==
    IF from > Len(s) THEN 0
    ELSE IF s[from] = c THEN from
    ELSE FindChar(s, c, from + 1)

HasChar(s, c) == FindChar(s, c, 1) # 0

\* str.split(c): the segments between the occurrences of c, empty ones kept
RECURSIVE Split(_, _)
Split(s, c) ==
    LET i == FindChar(s, c, 1) IN
    IF i = 0 THEN <<s>>
    ELSE <<SubSeq(s, 1, i - 1)>> \o Split(SubSeq(s, i + 1, Len(s)), c)

\* [x.strip() for x in segs if x.strip()]
RECURSIVE StripAndDropEmpty(_)
StripAndDropEmpty(segs) ==
    IF segs = <<>> THEN <<>>
    ELSE LET x == Strip(Head(segs)) IN
         (IF x # <<>> THEN <<x>> ELSE <<>>) \o StripAndDropEmpty(Tail(segs))

-----------------------------------------------------------------------------
(* Recipe model: src/recipes/models.py *)

Easy         == <<"E","a","s","y">>
Medium       == <<"M","e","d","i","u","m">>
Intermediate == <<"I","n","t","e","r","m","e","d","i","a","t","e">>
Hard         == <<"H","a","r","d">>

TimeThreshold == 10
CountThreshold == 4

return_ingredients_as_list_keeps_empty(ingredients) ==
    IF Falsy(ingredients) \/ Strip(ingredients) = <<>> THEN <<>>
    ELSE [i \in DOMAIN Split(ingredients, ",") |-> Strip(Split(ingredients, ",")[i])]

return_ingredients_as_list(ingredients) ==
    IF Falsy(ingredients) \/ Strip(ingredients) = <<>> THEN <<>>
    ELSE StripAndDropEmpty(Split(ingredients, ","))

calculate_difficulty_strict_count(cooking_time, ingredients) ==
    LET num_ingredients == Len(return_ingredients_as_list(ingredients)) IN
    IF cooking_time < TimeThreshold /\ num_ingredients < CountThreshold THEN Easy
    ELSE IF cooking_time < TimeThreshold /\ num_ingredients > CountThreshold THEN Medium
    ELSE IF cooking_time >= TimeThreshold /\ num_ingredients < CountThreshold THEN Intermediate
    ELSE IF cooking_time >= TimeThreshold /\ num_ingredients > CountThreshold THEN Hard
    ELSE None

calculate_difficulty(cooking_time, ingredients) ==
    LET num_ingredients == Len(return_ingredients_as_list(ingredients)) IN
    IF cooking_time < TimeThreshold /\ num_ingredients < CountThreshold THEN Easy
    ELSE IF cooking_time < TimeThreshold /\ num_ingredients >= CountThreshold THEN Medium
    ELSE IF cooking_time >= TimeThreshold /\ num_ingredients < CountThreshold THEN Intermediate
    ELSE IF cooking_time >= TimeThreshold /\ num_ingredients >= CountThreshold THEN Hard
    ELSE None

-----------------------------------------------------------------------------
(* Wildcard translation and the lookups it produces: src/recipes/views.py *)

\* str.replace(c, rep): every occurrence of the character c becomes rep
RECURSIVE Replace(_, _, _)
Replace(s, c, rep) ==
    IF s = <<>> THEN <<>>
    ELSE (IF Head(s) = c THEN rep ELSE <<Head(s)>>) \o Replace(Tail(s), c, rep)

\* case folding of the icontains and iregex lookups (ASCII letters)
FoldTable ==
    [c \in {UpperCase[i] : i \in 1..26} |-> LowerCase[CHOOSE i \in 1..26 : UpperCase[i] = c]]

Fold(c) == IF c \in DOMAIN FoldTable THEN FoldTable[c] ELSE c

\* field__icontains=term: the folded term occurs in the folded value
RECURSIVE FoldedPrefixAt(_, _, _, _)
FoldedPrefixAt(value, pos, term, k) ==
    IF k > Len(term) THEN TRUE
    ELSE IF pos > Len(value) THEN FALSE
    ELSE IF Fold(value[pos]) # Fold(term[k]) THEN FALSE
    ELSE FoldedPrefixAt(value, pos + 1, term, k + 1)

RECURSIVE IContainsFrom(_, _, _)
IContainsFrom(value, term, start) ==
    IF start + Len(term) - 1 > Len(value) THEN FALSE
    ELSE IF FoldedPrefixAt(value, start, term, 1) THEN TRUE
    ELSE IContainsFrom(value, term, start + 1)

IContains(value, term) == IContainsFrom(value, term, 1)

\* field__iregex=pattern.  The pattern is compiled to a sequence of items,
\* each an atom ("." or a literal character) with a repetition; a "*" with
\* nothing to repeat, or after another repetition, does not compile.  Of the
\* other operators of the pattern language the terms of the model hold only
\* parentheses, and never a pair of them: an opening parenthesis that is not
\* closed, or a closing one that was not opened, does not compile either.
RECURSIVE Compile(_)
Compile(p) ==
    IF p = <<>> THEN [ok |-> TRUE, items |-> <<>>]
    ELSE IF Head(p) \in {"*", "(", ")"} THEN [ok |-> FALSE, items |-> <<>>]
    ELSE LET star == Len(p) >= 2 /\ p[2] = "*"
             item == [any |-> Head(p) = ".", ch |-> Head(p), star |-> star]
             rest == Compile(SubSeq(p, IF star THEN 3 ELSE 2, Len(p)))
         IN  [ok |-> rest.ok, items |-> <<item>> \o rest.items]

\* "." matches any character but a newline; a literal matches itself in either case
AtomMatches(item, c) ==
    IF item.any THEN c # "\n" ELSE Fold(item.ch) = Fold(c)

\* the items from k on match some text that starts at pos
RECURSIVE MatchHere(_, _, _, _)
MatchHere(items, k, value, pos) ==
    IF k > Len(items) THEN TRUE
    ELSE IF items[k].star
    THEN \/ MatchHere(items, k + 1, value, pos)
         \/ /\ pos <= Len(value)
            /\ AtomMatches(items[k], value[pos])
            /\ MatchHere(items, k, value, pos + 1)
    ELSE /\ pos <= Len(value)
         /\ AtomMatches(items[k], value[pos])
         /\ MatchHere(items, k + 1, value, pos + 1)

Search_from_start(items, value) == MatchHere(items, 1, value, 1)

\* re.search: the pattern matches at some position of the value
Search(items, value) == \E pos \in 1..(Len(value) + 1) : MatchHere(items, 1, value, pos)

\* the outcome of a lookup on one field value
Lookup(q, value) ==
    IF q.lookup = "icontains"
    THEN (IF IContains(value, q.value) THEN "match" ELSE "nomatch")
    ELSE IF q.lookup = "lte"
    THEN (IF value <= q.value THEN "match" ELSE "nomatch")
    ELSE IF q.lookup = "exact"
    THEN (IF value = q.value THEN "match" ELSE "nomatch")
    ELSE IF ~Compile(q.value).ok THEN "error"
    ELSE IF Search(Compile(q.value).items, value) THEN "match" ELSE "nomatch"

\* process_wildcard_search returning None: no Q object, nothing to filter by
NoQ == [lookup |-> "None"]

HasWildcard(term) == HasChar(term, "*") \/ HasChar(term, "?")

\* pattern = term.replace('*', '.*').replace('?', '.')
Pattern(term) == Replace(Replace(term, "*", <<".", "*">>), "?", <<".">>)

process_wildcard_search_no_strip(search_term) ==
    IF Falsy(search_term) THEN NoQ
    ELSE IF HasWildcard(search_term)
         THEN [field |-> "name", lookup |-> "iregex", value |-> Pattern(search_term)]
         ELSE [field |-> "name", lookup |-> "icontains", value |-> search_term]

process_wildcard_search_star_as_one(search_term) ==
    IF Falsy(search_term) THEN NoQ
    ELSE LET term == Strip(search_term) IN
         IF HasWildcard(term)
         THEN [field |-> "name", lookup |-> "iregex",
               value |-> Replace(Replace(term, "*", <<".">>), "?", <<".">>)]
         ELSE [field |-> "name", lookup |-> "icontains", value |-> term]

process_wildcard_search_no_empty_check(search_term) ==
    IF search_term = None THEN NoQ
    ELSE LET term == Strip(search_term) IN
         IF HasWildcard(term)
         THEN [field |-> "name", lookup |-> "iregex", value |-> Pattern(term)]
         ELSE [field |-> "name", lookup |-> "icontains", value |-> term]

process_wildcard_search(search_term) ==
    IF Falsy(search_term) THEN NoQ
    ELSE LET term == Strip(search_term) IN
         IF HasWildcard(term)
         THEN [field |-> "name", lookup |-> "iregex", value |-> Pattern(term)]
         ELSE [field |-> "name", lookup |-> "icontains", value |-> term]

\* the lookups recipe_search builds from the ingredients entry, one per token
IngredientLookup(ingredient) ==
    IF HasWildcard(ingredient)
    THEN [field |-> "ingredients", lookup |-> "iregex", value |-> Pattern(ingredient)]
    ELSE [field |-> "ingredients", lookup |-> "icontains", value |-> ingredient]

IngredientLookups(ingredients) ==
    IF Falsy(ingredients) THEN <<>>
    ELSE LET ingredient_list == StripAndDropEmpty(Split(ingredients, ",")) IN
         [i \in DOMAIN ingredient_list |-> IngredientLookup(ingredient_list[i])]

RECURSIVE LookupAll_any(_, _)
LookupAll_any(qlist, row) ==
    IF qlist = <<>> THEN "match"
    ELSE LET first == Lookup(Head(qlist), row[Head(qlist).field])
             rest == IF Tail(qlist) = <<>> THEN "nomatch" ELSE LookupAll_any(Tail(qlist), row)
         IN  IF first = "error" \/ rest = "error" THEN "error"
             ELSE IF first = "match" \/ rest = "match" THEN "match"
             ELSE "nomatch"

\* qs.filter(q1).filter(q2)... on one row: every lookup must match; a lookup
\* that ends in an error makes the evaluation of the query end in an error
RECURSIVE LookupAll(_, _)
LookupAll(qlist, row) ==
    IF qlist = <<>> THEN "match"
    ELSE LET first == Lookup(Head(qlist), row[Head(qlist).field])
             rest == LookupAll(Tail(qlist), row)
         IN  IF first = "error" \/ rest = "error" THEN "error"
             ELSE IF first = "match" /\ rest = "match" THEN "match"
             ELSE "nomatch"

-----------------------------------------------------------------------------
(* The recipes table and Recipe.save: src/recipes/models.py *)

\* pk of an instance that has not been saved
NoId == 0

save_keeps_difficulty(table, id, instance) ==
    IF instance.name = None \/ instance.ingredients = None THEN table
    ELSE LET row == [id |-> id,
                     name |-> instance.name,
                     ingredients |-> instance.ingredients,
                     cooking_time |-> instance.cooking_time,
                     difficulty |-> instance.difficulty]
         IN  IF \E i \in DOMAIN table : table[i].id = id
             THEN [i \in DOMAIN table |-> IF table[i].id = id THEN row ELSE table[i]]
             ELSE Append(table, row)

\* Recipe.save of an instance under primary key id: the difficulty is set from
\* calculate_difficulty, then the row is written (updated when the key is in
\* the table, inserted otherwise).  name and ingredients are NOT NULL columns:
\* the write of a None is refused and the table is left as it was.
save(table, id, instance) ==
    LET difficulty == calculate_difficulty(instance.cooking_time, instance.ingredients) IN
    IF instance.name = None \/ instance.ingredients = None THEN table
    ELSE LET row == [id |-> id,
                     name |-> instance.name,
                     ingredients |-> instance.ingredients,
                     cooking_time |-> instance.cooking_time,
                     difficulty |-> difficulty]
         IN  IF \E i \in DOMAIN table : table[i].id = id
             THEN [i \in DOMAIN table |-> IF table[i].id = id THEN row ELSE table[i]]
             ELSE Append(table, row)

\* the table after Recipe.objects.create of each instance in turn
RECURSIVE CreateAll(_, _)
CreateAll(table, instances) ==
    IF instances = <<>> THEN table
    ELSE CreateAll(save(table, Len(table) + 1, Head(instances)), Tail(instances))

-----------------------------------------------------------------------------
(* recipe_search: src/recipes/views.py *)

Digits == <<"0", "1", "2", "3", "4", "5", "6", "7", "8", "9">>
IsDigit(c) == \E i \in 1..10 : Digits[i] = c
DigitValue(c) == (CHOOSE i \in 1..10 : Digits[i] = c) - 1

RECURSIVE DecimalValue(_, _)
DecimalValue(s, acc) ==
    IF s = <<>> THEN acc ELSE DecimalValue(Tail(s), 10 * acc + DigitValue(Head(s)))

\* int(text): surrounding whitespace and one sign are accepted, then decimal
\* digits only; anything else raises ValueError
ParseInt(text) ==
    LET t == Strip(text)
        signed == t # <<>> /\ Head(t) \in {"+", "-"}
        digits == IF signed THEN Tail(t) ELSE t
    IN  IF digits = <<>> \/ \E i \in 1..Len(digits) : ~IsDigit(digits[i])
        THEN [ok |-> FALSE, value |-> 0]
        ELSE [ok |-> TRUE,
              value |-> IF signed /\ Head(t) = "-" THEN 0 - DecimalValue(digits, 0)
                        ELSE DecimalValue(digits, 0)]

\* the lookups the view chains on Recipe.objects.all(), in the order it adds them
NameFilters(p) ==
    IF Falsy(p.recipe_name) THEN <<>>
    ELSE IF process_wildcard_search(p.recipe_name) = NoQ THEN <<>>
    ELSE <<process_wildcard_search(p.recipe_name)>>

CookingTimeFilters(p) ==
    IF Falsy(p.cooking_time_max) THEN <<>>
    ELSE <<[field |-> "cooking_time", lookup |-> "lte",
            value |-> ParseInt(p.cooking_time_max).value]>>

DifficultyFilters(p) ==
    IF Falsy(p.difficulty) THEN <<>>
    ELSE <<[field |-> "difficulty", lookup |-> "exact", value |-> p.difficulty]>>

Filters_strict_time(p) ==
    IF p.search_action # "search" THEN <<>>
    ELSE NameFilters(p) \o IngredientLookups(p.ingredients)
         \o [i \in DOMAIN CookingTimeFilters(p) |->
                [CookingTimeFilters(p)[i] EXCEPT !.value = @ - 1]]
         \o DifficultyFilters(p)

Filters_no_difficulty(p) ==
    IF p.search_action # "search" THEN <<>>
    ELSE NameFilters(p) \o IngredientLookups(p.ingredients) \o CookingTimeFilters(p)

Filters_any_action(p) ==
    NameFilters(p) \o IngredientLookups(p.ingredients)
    \o CookingTimeFilters(p) \o DifficultyFilters(p)

Filters(p) ==
    IF p.search_action # "search" THEN <<>>
    ELSE NameFilters(p) \o IngredientLookups(p.ingredients)
         \o CookingTimeFilters(p) \o DifficultyFilters(p)

\* int(cooking_time_max) raises while the view builds the queryset
RaisesValueError(p) ==
    /\ p.search_action = "search"
    /\ ~Falsy(p.cooking_time_max)
    /\ ~ParseInt(p.cooking_time_max).ok

\* the outcome of the chained lookups on every row of the table
Outcomes(table, qlist) == [i \in DOMAIN table |-> LookupAll(qlist, table[i])]

\* evaluating the queryset ends in an error when a lookup does on some row
RaisesQueryError(outcomes) == \E i \in DOMAIN outcomes : outcomes[i] = "error"

\* the rows of the table the queryset evaluates to, in the table's order
RECURSIVE Evaluate(_, _, _)
Evaluate(table, outcomes, i) ==
    IF i > Len(table) THEN <<>>
    ELSE (IF outcomes[i] = "match" THEN <<table[i]>> ELSE <<>>)
         \o Evaluate(table, outcomes, i + 1)

InlineIngredientCount_counts_segments(ingredients) ==
    IF Falsy(ingredients) THEN 0
    ELSE Len(Split(ingredients, ","))

\* len([ing.strip() for ing in recipe.ingredients.split(",") if ing.strip()])
\*     if recipe.ingredients else 0
InlineIngredientCount(ingredients) ==
    IF Falsy(ingredients) THEN 0
    ELSE Len(StripAndDropEmpty(Split(ingredients, ",")))

\* a row of recipes_data; short_description, recipe_image_url and detail_url,
\* which are copied from the recipe as they are, are left out
SummaryRow(recipe) ==
    [id |-> recipe.id,
     name |-> recipe.name,
     cooking_time |-> recipe.cooking_time,
     difficulty |-> recipe.difficulty,
     ingredients |-> recipe.ingredients,
     ingredient_count |-> InlineIngredientCount(recipe.ingredients)]

\* a row of recipes_df
FrameRow(recipe) ==
    [id |-> recipe.id,
     name |-> recipe.name,
     cooking_time |-> recipe.cooking_time,
     difficulty |-> recipe.difficulty,
     ingredients |-> recipe.ingredients,
     ingredient_count |-> InlineIngredientCount(recipe.ingredients)]

\* get_chart_with_colors(chart_type, recipes_df, color_scheme='brand'): the
\* call is modelled by its arguments, the image it returns by what it was
\* drawn from
Chart(chart_type, frame) ==
    [chart_type |-> chart_type, color_scheme |-> "brand", data |-> frame]

ChartCalls_unguarded(rows) ==
    LET recipes_df == [i \in DOMAIN rows |-> FrameRow(rows[i])] IN
    <<Chart("#1", recipes_df), Chart("#2", recipes_df), Chart("#3", recipes_df)>>

\* the calls of get_chart_with_colors the POST branch makes for the rows of
\* its queryset: recipes_df and the charts are built under `if qs.exists()`
ChartCalls(rows) ==
    IF rows # <<>>
    THEN LET recipes_df == [i \in DOMAIN rows |-> FrameRow(rows[i])] IN
         <<Chart("#1", recipes_df), Chart("#2", recipes_df), Chart("#3", recipes_df)>>
    ELSE <<>>

RedirectAnchor_one_anchor(found) == "#search-results"

\* the section of the search page the POST branch redirects to
RedirectAnchor(found) ==
    IF found THEN "#search-results" ELSE "#no-recipes-found"

FormData(p) ==
    [recipe_name |-> p.recipe_name,
     ingredients |-> p.ingredients,
     cooking_time_max |-> p.cooking_time_max,
     difficulty |-> p.difficulty]

\* request.session is a dictionary: a function from the keys it holds
NoSession == <<>>
\* request.session[key] = value, for every key of the record `new`
SessionSet(sess, new) ==
    [k \in DOMAIN sess \cup DOMAIN new |-> IF k \in DOMAIN new THEN new[k] ELSE sess[k]]
SessionDrop(sess, keys) == [k \in DOMAIN sess \ keys |-> sess[k]]

\* request.POST of a session that has posted nothing yet
NoPost == [search_action |-> "no POST yet"]

\* a context value that is None, and one that is a list
PyNone == [py |-> "None"]
PyList(items) == [py |-> "list", items |-> items]

-----------------------------------------------------------------------------
(* Inputs of the function specifications *)

IngredientAlphabet == {"a", "b", ",", " "}

\* every text over alphabet of length at most n
RECURSIVE TextsUpTo(_, _)
TextsUpTo(alphabet, n) ==
    IF n = 0 THEN {<<>>}
    ELSE LET shorter == TextsUpTo(alphabet, n - 1) IN
         shorter \cup {Append(s, c) : s \in {t \in shorter : Len(t) = n - 1}, c \in alphabet}

\* "a, a, ..., a" with n items
RECURSIVE Items(_)
Items(n) ==
    IF n = 0 THEN <<>>
    ELSE IF n = 1 THEN <<"a">>
    ELSE Items(n - 1) \o <<",", " ", "a">>

IngredientInputs ==
    {None} \cup TextsUpTo(IngredientAlphabet, MaxLen) \cup {Items(n) : n \in 0..MaxItems}

SystemIdle ==
    /\ db = <<>>
    /\ nextId = 1
    /\ session = NoSession
    /\ post = NoPost
    /\ qs = <<>>
    /\ resp = [kind |-> "none"]
    /\ charted = <<>>

(* Specification of the Recipe model's functions: a Recipe instance is built
   with any ingredients and cooking_time, then one of its methods is called. *)
InitRecipe ==
    /\ SystemIdle
    /\ arg \in [ingredients : IngredientInputs, cooking_time : 0..MaxTime]
    /\ ret = None
    /\ pc = "built"

CallReturnIngredientsAsList ==
    /\ pc = "built"
    /\ ret' = return_ingredients_as_list(arg.ingredients)
    /\ pc' = "return_ingredients_as_list"
    /\ UNCHANGED <<db, nextId, session, post, qs, resp, charted, arg>>

CallCalculateDifficulty ==
    /\ pc = "built"
    /\ ret' = calculate_difficulty(arg.cooking_time, arg.ingredients)
    /\ pc' = "calculate_difficulty"
    /\ UNCHANGED <<db, nextId, session, post, qs, resp, charted, arg>>

NextRecipe == CallReturnIngredientsAsList \/ CallCalculateDifficulty

SpecRecipe == InitRecipe /\ [][NextRecipe]_vars

-----------------------------------------------------------------------------
(* Specification of the search term functions: a term is translated by
   process_wildcard_search and the result filters a name, as
   Recipe.objects.filter(q) does on one row; or the term is taken as the
   ingredients entry of recipe_search and filters an ingredients value. *)

MaxTermLen == 3     \* longest generated search term
MaxValueLen == 3    \* longest generated field value

TermAlphabet == {"a", "B", " ", ",", "*", "?"}
ValueAlphabet == {"a", "A", "b"}

T_pasta         == <<"p","a","s","t","a">>
T_pastas        == <<"p","a","s","t","a","s">>
T_pasta_bake    == <<"p","a","s","t","a","-","b","a","k","e">>
T_pizza         == <<"p","i","z","z","a">>
T_pastass       == <<"p","a","s","t","a","s","s">>
T_pasta_star    == <<"p","a","s","t","a","*">>
T_pasta_q       == <<"p","a","s","t","a","?">>
T_PastaAlPesto  == <<"P","a","s","t","a"," ","a","l"," ","P","e","s","t","o">>
T_PizzaMargherita == <<"P","i","z","z","a"," ","M","a","r","g","h","e","r","i","t","a">>
T_SummerSalad   == <<"S","u","m","m","e","r"," ","S","a","l","a","d">>
T_tomato        == <<"t","o","m","a","t","o">>
T_cheese        == <<"c","h","e","e","s","e">>
T_tomato_cheese == <<"t","o","m","a","t","o",",","c","h","e","e","s","e">>
T_Tomato_Cheese_spaced == <<" ","T","o","m","a","t","o"," ",","," ","C","H","E","E","S","E",",">>
T_nonexistent   == <<"n","o","n","e","x","i","s","t","e","n","t">>

T_ing_pesto == <<"p","a","s","t","a",","," ","p","e","s","t","o",","," ","c","h","e","e","s","e",","," ","g","a","r","l","i","c">>
T_ing_pizza == <<"d","o","u","g","h",","," ","t","o","m","a","t","o",","," ","c","h","e","e","s","e",","," ","b","a","s","i","l">>
T_ing_salad == <<"l","e","t","t","u","c","e",","," ","t","o","m","a","t","o",","," ","c","u","c","u","m","b","e","r",","," ","o","l","i","v","e"," ","o","i","l">>
T_ing_carbonara == <<"p","a","s","t","a",","," ","e","g","g","s",","," ","c","h","e","e","s","e">>
T_PastaAllaCarbonara == <<"P","a","s","t","a"," ","a","l","l","a"," ","C","a","r","b","o","n","a","r","a">>
T_pasta_star_q  == <<"p","a","s","t","a","*","?">>
T_pa_dot_ta_star == <<"p","a",".","t","a","*">>
T_pasta_paren_star == <<"p","a","s","t","a","(","*">>
T_TestRecipe == <<"T","e","s","t"," ","R","e","c","i","p","e">>
T_ing_with_empty == <<"I","n","g","r","e","d","i","e","n","t","1",","," ",","," ","I","n","g","r","e","d","i","e","n","t","2",","," "," ",","," ","I","n","g","r","e","d","i","e","n","t","3">>
T_10 == <<"1","0">>
T_abc == <<"a","b","c">>

ExampleTerms ==
    {T_pasta, T_pasta_star, T_pasta_q, T_tomato, T_cheese, T_tomato_cheese,
     T_Tomato_Cheese_spaced, T_nonexistent, T_pasta_star_q, T_pa_dot_ta_star,
     T_pasta_paren_star}
ExampleValues ==
    {T_pasta, T_pastas, T_pasta_bake, T_pizza, T_pastass, T_PastaAlPesto,
     T_PizzaMargherita, T_SummerSalad, T_tomato, T_cheese, T_tomato_cheese,
     T_ing_pesto, T_ing_pizza, T_ing_salad, T_ing_carbonara}

InitMatch ==
    /\ SystemIdle
    /\ arg \in ([term : {None} \cup TextsUpTo(TermAlphabet, MaxTermLen),
                 value : TextsUpTo(ValueAlphabet, MaxValueLen)]
                \cup [term : ExampleTerms, value : ExampleValues])
    /\ ret = None
    /\ pc = "built"

CallProcessWildcardSearch ==
    /\ pc = "built"
    /\ ret' = process_wildcard_search(arg.term)
    /\ pc' = "translated"
    /\ UNCHANGED <<db, nextId, session, post, qs, resp, charted, arg>>

\* Recipe.objects.filter(q) on a row whose name is arg.value; no q, no filter
FilterName ==
    /\ pc = "translated"
    /\ ret' = IF ret = NoQ THEN "match" ELSE LookupAll(<<ret>>, [name |-> arg.value])
    /\ pc' = "name_filtered"
    /\ UNCHANGED <<db, nextId, session, post, qs, resp, charted, arg>>

\* the ingredients filters of recipe_search on a row whose ingredients is arg.value
FilterIngredients ==
    /\ pc = "built"
    /\ ret' = LookupAll(IngredientLookups(arg.term), [ingredients |-> arg.value])
    /\ pc' = "ingredients_filtered"
    /\ UNCHANGED <<db, nextId, session, post, qs, resp, charted, arg>>

NextMatch == CallProcessWildcardSearch \/ FilterName \/ FilterIngredients

SpecMatch == InitMatch /\ [][NextMatch]_vars

-----------------------------------------------------------------------------
(* Specification of the store: recipes are created and updated through
   Recipe.save, with any difficulty supplied by the caller. *)

MaxRecipes == 2     \* most rows of the table

StoreNames == {None, T_pasta}
StoreIngredients == {None, <<>>, <<" ", ",", " ">>, Items(3), Items(4)}
StoreTimes == {9, 10}
StoreDifficulties == {<<>>, Hard}

Instances ==
    [name : StoreNames, ingredients : StoreIngredients,
     cooking_time : StoreTimes, difficulty : StoreDifficulties]

InitStore ==
    /\ SystemIdle
    /\ arg = None
    /\ ret = NoId
    /\ pc = "store"

\* Recipe.objects.create(**instance), or Recipe(**instance).save()
Create(instance) ==
    /\ pc = "store"
    /\ Len(db) < MaxRecipes
    /\ db' = save(db, nextId, instance)
    /\ nextId' = IF db' # db THEN nextId + 1 ELSE nextId
    /\ arg' = instance
    /\ ret' = IF db' # db THEN nextId ELSE NoId
    /\ UNCHANGED <<session, post, qs, resp, charted, pc>>

\* recipe = Recipe.objects.get(pk=id); its fields are assigned; recipe.save()
Update(id, instance) ==
    /\ pc = "store"
    /\ \E i \in DOMAIN db : db[i].id = id
    /\ db' = save(db, id, instance)
    /\ arg' = instance
    /\ ret' = IF instance.name = None \/ instance.ingredients = None THEN NoId ELSE id
    /\ UNCHANGED <<nextId, session, post, qs, resp, charted, pc>>

NextStore ==
    \/ \E instance \in Instances : Create(instance)
    \/ \E id \in 1..MaxRecipes, instance \in Instances : Update(id, instance)

SpecStore == InitStore /\ [][NextStore]_vars

-----------------------------------------------------------------------------
(* Specification of the search view: the table holds a selection of the
   recipes the tests create, each stored by Recipe.save; one logged-in client
   session posts searches to recipe_search and gets the page. *)

SampleRecipes ==
    << [name |-> T_PastaAlPesto, ingredients |-> T_ing_pesto,
        cooking_time |-> 10, difficulty |-> Hard],
       [name |-> T_PizzaMargherita, ingredients |-> T_ing_pizza,
        cooking_time |-> 5, difficulty |-> Medium],
       [name |-> T_SummerSalad, ingredients |-> T_ing_salad,
        cooking_time |-> 15, difficulty |-> Hard],
       [name |-> T_PastaAllaCarbonara, ingredients |-> T_ing_carbonara,
        cooking_time |-> 15, difficulty |-> <<>>],
       [name |-> T_TestRecipe, ingredients |-> T_ing_with_empty,
        cooking_time |-> 10, difficulty |-> <<>>],
       [name |-> T_TestRecipe, ingredients |-> <<>>,
        cooking_time |-> 10, difficulty |-> <<>>] >>

\* RecipeSearchViewTest.setUp: the first three
FixtureTable == CreateAll(<<>>, SubSeq(SampleRecipes, 1, 3))

\* the sample recipes whose index is in keep, in their order
RECURSIVE Selection(_, _)
Selection(keep, i) ==
    IF i > Len(SampleRecipes) THEN <<>>
    ELSE (IF i \in keep THEN <<SampleRecipes[i]>> ELSE <<>>) \o Selection(keep, i + 1)

\* the tables: empty, one recipe, two, the fixture of the view's tests, the
\* four recipes of the search tests, and two recipes of the model's tests
\* whose ingredients have empty segments or are empty
Selections == {{}, {2}, {1, 4}, {1, 2, 3}, {1, 2, 3, 4}, {5, 6}}

Tables == {CreateAll(<<>>, Selection(keep, 1)) : keep \in Selections}

\* the requests: every combination of four criteria given or not, under either
\* action, and requests with one other value of a criterion
NoCriteria ==
    [search_action |-> "search", recipe_name |-> None, ingredients |-> None,
     cooking_time_max |-> None, difficulty |-> None]

PostData ==
    [search_action : {"search", "show_all"},
     recipe_name : {None, T_pasta_star},
     ingredients : {None, T_tomato},
     cooking_time_max : {None, T_10},
     difficulty : {None, Hard}]
    \cup {[NoCriteria EXCEPT !.recipe_name = <<>>, !.ingredients = <<>>,
                             !.cooking_time_max = <<>>, !.difficulty = <<>>],
          [NoCriteria EXCEPT !.recipe_name = T_pasta],
          [NoCriteria EXCEPT !.ingredients = T_tomato_cheese],
          [NoCriteria EXCEPT !.ingredients = T_Tomato_Cheese_spaced],
          [NoCriteria EXCEPT !.cooking_time_max = T_abc],
          [NoCriteria EXCEPT !.difficulty = Medium],
          [NoCriteria EXCEPT !.recipe_name = T_nonexistent]}

InitSearch ==
    /\ db \in Tables
    /\ nextId = Len(db) + 1
    /\ session = NoSession
    /\ post = NoPost
    /\ qs = <<>>
    /\ resp = [kind |-> "none"]
    /\ charted = <<>>
    /\ arg = None
    /\ ret = None
    /\ pc = "search"

\* the POST branch of recipe_search on the table and the session: the response,
\* the rows of the queryset and the session it leaves
HandlePost(table, sess, p) ==
    IF RaisesValueError(p)
    THEN [resp |-> [kind |-> "error", exception |-> "ValueError"],
          qs |-> <<>>, charted |-> <<>>, session |-> sess]
    ELSE LET outcomes == Outcomes(table, Filters(p)) IN
         IF RaisesQueryError(outcomes)
         THEN [resp |-> [kind |-> "error", exception |-> "DatabaseError"],
               qs |-> <<>>, charted |-> <<>>, session |-> sess]
         ELSE LET rows == Evaluate(table, outcomes, 1)
                  recipes_data == [i \in DOMAIN rows |-> SummaryRow(rows[i])]
                  calls == ChartCalls(rows)
              IN  IF rows # <<>>
                  THEN [resp |-> [kind |-> "redirect", anchor |-> RedirectAnchor(TRUE)],
                        qs |-> rows,
                        charted |-> calls,
                        session |-> SessionSet(sess,
                                        [search_recipes |-> recipes_data,
                                         search_charts |-> [bar |-> calls[1],
                                                            pie |-> calls[2],
                                                            line |-> calls[3]],
                                         search_form_data |-> FormData(p)])]
                  ELSE [resp |-> [kind |-> "redirect", anchor |-> RedirectAnchor(FALSE)],
                        qs |-> rows,
                        charted |-> calls,
                        session |-> SessionSet(sess, [search_form_data |-> FormData(p)])]

\* POST to recipe_search of a logged-in session
SearchPost(p) ==
    /\ pc = "search"
    /\ post' = p
    /\ LET handled == HandlePost(db, session, p) IN
       /\ qs' = handled.qs
       /\ session' = handled.session
       /\ resp' = handled.resp
       /\ charted' = handled.charted
    /\ UNCHANGED <<db, nextId, arg, ret, pc>>

\* GET of recipe_search of a logged-in session
SearchGet ==
    /\ pc = "search"
    /\ IF "search_recipes" \in DOMAIN session
       THEN /\ resp' = [kind |-> "page",
                        recipes |-> PyList(session["search_recipes"]),
                        charts |-> session["search_charts"],
                        form |-> IF "search_form_data" \in DOMAIN session
                                 THEN [initial |-> session["search_form_data"]]
                                 ELSE [initial |-> <<>>]]
            /\ session' = SessionDrop(session,
                              {"search_recipes", "search_charts", "search_form_data"})
       ELSE /\ resp' = [kind |-> "page", recipes |-> PyNone, charts |-> PyNone,
                        form |-> [initial |-> <<>>]]
            /\ UNCHANGED session
    /\ charted' = <<>>
    /\ UNCHANGED <<db, nextId, post, qs, arg, ret, pc>>

NextSearch ==
    \/ \E p \in PostData : SearchPost(p)
    \/ SearchGet

SpecSearch == InitSearch /\ [][NextSearch]_vars

-----------------------------------------------------------------------------
(* Access to the views: src/recipes/views.py and src/recipes/urls.py.  The
   list, detail and search views require a logged-in session; the login and
   logout views of the project are modelled from what their tests lay down
   (src/recipe_project/test_auth.py).  The logged-in user is the key
   _auth_user_id of the session. *)

ViewNames == {"home", "recipe-list", "recipe-detail", "recipe-search"}

LoginRequired_search_open == {"recipe-list", "recipe-detail"}

\* the views under LoginRequiredMixin or @login_required
LoginRequired == {"recipe-list", "recipe-detail", "recipe-search"}

\* the users the tests create: id, username, password
Users ==
    {[id |-> 1, username |-> "testuser", password |-> "testpass123"],
     [id |-> 2, username |-> "testuser2", password |-> "testpass456"]}

Usernames == {"testuser", "testuser2", "nonexistent"}
Passwords == {"testpass123", "testpass456", "wrongpassword"}
NoCredentials == [username |-> "", password |-> ""]

\* request.user.is_authenticated
IsAuthenticated(sess) == "_auth_user_id" \in DOMAIN sess

\* what login_required and LoginRequiredMixin answer an anonymous request with
RedirectToLogin(view) == [kind |-> "redirect", to |-> "login", next |-> view]

\* the response of a view of recipes/urls.py to a GET; pk is read by the
\* detail view only, which answers 404 when the table has no such recipe
ViewResponse(sess, table, view, pk) ==
    IF view \in LoginRequired /\ ~IsAuthenticated(sess)
    THEN RedirectToLogin(view)
    ELSE IF view = "recipe-detail" /\ ~\E i \in DOMAIN table : table[i].id = pk
    THEN [kind |-> "not_found", view |-> view]
    ELSE [kind |-> "page", view |-> view]

InitAuth ==
    /\ db = FixtureTable
    /\ nextId = Len(db) + 1
    /\ session = NoSession
    /\ post = NoPost
    /\ qs = <<>>
    /\ resp = [kind |-> "none"]
    /\ charted = <<>>
    /\ arg = [view |-> "none", pk |-> NoId, credentials |-> NoCredentials]
    /\ ret = "anonymous"
    /\ pc = "auth"

\* GET of a view of the recipes application
Request(view, pk) ==
    /\ pc = "auth"
    /\ arg' = [view |-> view, pk |-> pk, credentials |-> NoCredentials]
    /\ resp' = ViewResponse(session, db, view, pk)
    /\ UNCHANGED <<db, nextId, session, post, qs, charted, ret, pc>>

\* GET of the login view: the form, or the recipe list for a logged-in session
LoginPage ==
    /\ pc = "auth"
    /\ arg' = [view |-> "login-form", pk |-> NoId, credentials |-> NoCredentials]
    /\ resp' = IF IsAuthenticated(session)
               THEN [kind |-> "redirect", to |-> "recipe-list"]
               ELSE [kind |-> "page", view |-> "login"]
    /\ UNCHANGED <<db, nextId, session, post, qs, charted, ret, pc>>

\* POST of credentials to the login view: a session that is logged in is
\* sent to the recipe list and stays as it is; credentials of a user log
\* the session in; any others give the login page again
Login(credentials) ==
    /\ pc = "auth"
    /\ arg' = [view |-> "login", pk |-> NoId, credentials |-> credentials]
    /\ IF IsAuthenticated(session)
       THEN /\ resp' = [kind |-> "redirect", to |-> "recipe-list"]
            /\ UNCHANGED <<session, ret>>
       ELSE IF \E u \in Users : u.username = credentials.username
                                /\ u.password = credentials.password
       THEN /\ session' = SessionSet(session,
                  [_auth_user_id |->
                      (CHOOSE u \in Users : u.username = credentials.username).id])
            /\ resp' = [kind |-> "redirect", to |-> "recipe-list"]
            /\ ret' = "logged_in"
       ELSE /\ resp' = [kind |-> "page", view |-> "login"]
            /\ UNCHANGED <<session, ret>>
    /\ UNCHANGED <<db, nextId, post, qs, charted, pc>>

\* request to the logout view, itself under login_required: the session of
\* a logged-in user is flushed
Logout ==
    /\ pc = "auth"
    /\ arg' = [view |-> "logout", pk |-> NoId, credentials |-> NoCredentials]
    /\ IF IsAuthenticated(session)
       THEN /\ session' = NoSession
            /\ resp' = [kind |-> "page", view |-> "logout"]
            /\ ret' = "logged_out"
       ELSE /\ resp' = RedirectToLogin("logout")
            /\ UNCHANGED <<session, ret>>
    /\ UNCHANGED <<db, nextId, post, qs, charted, pc>>

NextAuth ==
    \/ \E view \in ViewNames, pk \in 1..(Len(FixtureTable) + 1) : Request(view, pk)
    \/ LoginPage
    \/ \E credentials \in [username : Usernames, password : Passwords] : Login(credentials)
    \/ Logout

SpecAuth == InitAuth /\ [][NextAuth]_vars

-----------------------------------------------------------------------------
(* Validation of a Recipe: Recipe.clean and Model.full_clean over the fields
   name, ingredients and cooking_time (an integer here); the other fields
   keep their defaults, which validate. *)

MaxNameLength == 120     \* name = models.CharField(max_length=120)
MinCookingTime == 1      \* MinValueValidator(1)
MaxCookingTime == 1440   \* MaxValueValidator(1440)

Valid == [kind |-> "ok"]
ValidationError(fields) == [kind |-> "ValidationError", fields |-> fields]

clean_no_name_check(instance) ==
    IF Falsy(instance.ingredients) \/ Falsy(Strip(instance.ingredients))
    THEN ValidationError({"ingredients"})
    ELSE IF instance.cooking_time <= 0
    THEN ValidationError({"cooking_time"})
    ELSE Valid

\* Recipe.clean: the first check that fails raises
clean(instance) ==
    IF Falsy(instance.ingredients) \/ Falsy(Strip(instance.ingredients))
    THEN ValidationError({"ingredients"})
    ELSE IF Falsy(instance.name) \/ Falsy(Strip(instance.name))
    THEN ValidationError({"name"})
    ELSE IF instance.cooking_time <= 0
    THEN ValidationError({"cooking_time"})
    ELSE Valid

\* Model.clean_fields: the fields whose own validation fails.  A CharField
\* or TextField that may not be blank refuses None and the empty string, and
\* nothing else; max_length and the validators run on values that are not empty.
clean_fields(instance) ==
    (IF Falsy(instance.name) THEN {"name"}
     ELSE IF Len(instance.name) > MaxNameLength THEN {"name"} ELSE {})
    \cup (IF Falsy(instance.ingredients) THEN {"ingredients"} ELSE {})
    \cup (IF instance.cooking_time < MinCookingTime \/ instance.cooking_time > MaxCookingTime
          THEN {"cooking_time"} ELSE {})

\* Model.full_clean: clean_fields, then clean, whatever clean_fields found;
\* the errors of both are raised together
full_clean(instance) ==
    LET errors == clean_fields(instance)
                  \cup (IF clean(instance) = Valid THEN {} ELSE clean(instance).fields)
    IN  IF errors = {} THEN Valid ELSE ValidationError(errors)

T_Test == <<"T","e","s","t">>
T_comma == <<",">>
T_blank == <<" "," "," ">>
T_Ingredient1_Ingredient2 == <<"I","n","g","r","e","d","i","e","n","t","1",","," ","I","n","g","r","e","d","i","e","n","t","2">>
NameOfLength(n) == [i \in 1..n |-> "x"]

CleanNames == {None, <<>>, T_blank, T_TestRecipe,
               NameOfLength(MaxNameLength), NameOfLength(MaxNameLength + 1)}
CleanIngredients == {None, <<>>, T_blank, T_Test, T_comma, <<" ", ",", " ">>,
                     T_Ingredient1_Ingredient2, T_ing_with_empty}
CleanTimes == {0 - 5, 0, MinCookingTime, 30, MaxCookingTime, MaxCookingTime + 1}

(* Specification of validation: a Recipe instance is built, then clean or
   full_clean is called on it. *)
InitClean ==
    /\ SystemIdle
    /\ arg \in [name : CleanNames, ingredients : CleanIngredients, cooking_time : CleanTimes]
    /\ ret = None
    /\ pc = "built"

CallClean ==
    /\ pc = "built"
    /\ ret' = clean(arg)
    /\ pc' = "clean"
    /\ UNCHANGED <<db, nextId, session, post, qs, resp, charted, arg>>

CallFullClean ==
    /\ pc = "built"
    /\ ret' = full_clean(arg)
    /\ pc' = "full_clean"
    /\ UNCHANGED <<db, nextId, session, post, qs, resp, charted, arg>>

NextClean == CallClean \/ CallFullClean

SpecClean == InitClean /\ [][NextClean]_vars

-----------------------------------------------------------------------------
(* Chart generation: src/recipes/utils.py.  A table (pandas DataFrame) is
   modelled by the set of its columns and the number of its rows; an image
   by the chart it shows.  What the drawing library does with the columns it
   is given is not code of the repository: for a table with rows it draws,
   for one with the columns and no row it may draw or fail. *)

MaxFrameRows == 2   \* most rows of a table given to get_chart

SchemeNames == {"default", "pastel", "brand", "monochrome"}

\* COLOR_SCHEMES.get(scheme_name, COLOR_SCHEMES["default"]), by the scheme's name
get_color_scheme(scheme_name) ==
    IF scheme_name \in SchemeNames THEN scheme_name ELSE "default"

\* the columns a chart kind reads from the table, in the order it reads them
ColumnsRead(chart_type) ==
    IF chart_type = "#1" THEN <<"name", "cooking_time">>
    ELSE IF chart_type = "#2" THEN <<"difficulty">>
    ELSE IF chart_type = "#3" THEN <<"ingredient_count", "cooking_time">>
    ELSE <<>>

\* the positions of ColumnsRead(chart_type) whose column the table lacks
MissingReads(chart_type, data) ==
    {i \in DOMAIN ColumnsRead(chart_type) : ColumnsRead(chart_type)[i] \notin data.columns}

Image(chart_type, scheme) == [kind |-> "image", chart_type |-> chart_type, scheme |-> scheme]

get_chart_swallows_errors(chart_type, data, color_scheme) ==
    {Image(chart_type, get_color_scheme(color_scheme))}

get_chart_rejects_unknown(chart_type, data, color_scheme) ==
    LET scheme == get_color_scheme(color_scheme)
        missing == MissingReads(chart_type, data)
    IN  IF ColumnsRead(chart_type) = <<>>
        THEN {[kind |-> "error", raised_by |-> "get_chart"]}
        ELSE IF missing # {}
        THEN {[kind |-> "KeyError",
               key |-> ColumnsRead(chart_type)[CHOOSE i \in missing : \A j \in missing : i <= j]]}
        ELSE {Image(chart_type, scheme)}

\* get_chart(chart_type, data, color_scheme=...): the outcomes the call can
\* have.  data[column] of a column the table lacks raises KeyError, which
\* nothing in get_chart catches; an unknown chart type reads no column and
\* the empty figure is rendered.
get_chart(chart_type, data, color_scheme) ==
    LET scheme == get_color_scheme(color_scheme)
        missing == MissingReads(chart_type, data)
    IN  IF missing # {}
        THEN {[kind |-> "KeyError",
               key |-> ColumnsRead(chart_type)[CHOOSE i \in missing : \A j \in missing : i <= j]]}
        ELSE IF data.rows = 0 /\ ColumnsRead(chart_type) # <<>>
        THEN {Image(chart_type, scheme), [kind |-> "error", raised_by |-> "drawing"]}
        ELSE {Image(chart_type, scheme)}

\* get_chart_with_colors(chart_type, data, color_scheme, custom_colors=None)
get_chart_with_colors(chart_type, data, color_scheme) ==
    get_chart(chart_type, data, color_scheme)

ChartTypes == {"#1", "#2", "#3", "invalid"}
FrameColumns == {"name", "cooking_time", "difficulty", "ingredient_count"}
Frames == [columns : SUBSET FrameColumns, rows : 0..MaxFrameRows]
\* pd.DataFrame(): no column, no row
EmptyFrame == [columns |-> {}, rows |-> 0]

(* Specification of the chart functions: one call on any table. *)
InitChart ==
    /\ SystemIdle
    /\ arg \in [chart_type : ChartTypes, data : Frames,
                color_scheme : {"default", "brand", "vibrant"}]
    /\ ret = None
    /\ pc = "built"

CallGetChart ==
    /\ pc = "built"
    /\ ret' \in get_chart(arg.chart_type, arg.data, arg.color_scheme)
    /\ pc' = "get_chart"
    /\ UNCHANGED <<db, nextId, session, post, qs, resp, charted, arg>>

CallGetChartWithColors ==
    /\ pc = "built"
    /\ ret' \in get_chart_with_colors(arg.chart_type, arg.data, arg.color_scheme)
    /\ pc' = "get_chart_with_colors"
    /\ UNCHANGED <<db, nextId, session, post, qs, resp, charted, arg>>

NextChart == CallGetChart \/ CallGetChartWithColors

SpecChart == InitChart /\ [][NextChart]_vars

-----------------------------------------------------------------------------
(* A search POST next to the deletion of recipes: src/recipes/views.py,
   lines 101-150.  The view reads the table twice: qs.exists() is a query of
   its own, and "for recipe in qs" fetches the rows afterwards (the second
   loop over qs, for recipes_df, reads the rows already fetched).  Another
   request, of the admin site, may delete recipes between the two. *)

RecipeColumns ==
    {"id", "name", "cooking_time", "difficulty", "ingredients", "ingredient_count"}

\* pd.DataFrame(list of dicts), as get_chart sees it: the columns are the
\* keys of the dicts, none when the list is empty
DataFrame(rows) ==
    [columns |-> IF rows = <<>> THEN {} ELSE RecipeColumns, rows |-> Len(rows)]

\* the table without its i-th row
RemoveRow(table, i) ==
    [k \in 1..(Len(table) - 1) |-> IF k < i THEN table[k] ELSE table[k + 1]]

\* the requests made next to the deletions: every recipe, a name, a name no
\* recipe has, a time limit, and a time limit that is no number
RacePosts ==
    {[NoCriteria EXCEPT !.search_action = "show_all"],
     [NoCriteria EXCEPT !.recipe_name = T_pasta],
     [NoCriteria EXCEPT !.recipe_name = T_nonexistent],
     [NoCriteria EXCEPT !.cooking_time_max = T_10],
     [NoCriteria EXCEPT !.cooking_time_max = T_abc]}

InitRace == InitSearch

\* the POST branch up to "if qs.exists()": the filters are built and the
\* existence query runs; with no match the request ends here
SearchPostExists(p) ==
    /\ pc = "search"
    /\ post' = p
    /\ qs' = <<>>
    /\ charted' = <<>>
    /\ IF RaisesValueError(p)
       THEN /\ resp' = [kind |-> "error", exception |-> "ValueError"]
            /\ UNCHANGED <<session, pc>>
       ELSE LET outcomes == Outcomes(db, Filters(p)) IN
            IF RaisesQueryError(outcomes)
            THEN /\ resp' = [kind |-> "error", exception |-> "DatabaseError"]
                 /\ UNCHANGED <<session, pc>>
            ELSE IF Evaluate(db, outcomes, 1) # <<>>
            THEN /\ resp' = [kind |-> "none"]
                 /\ pc' = "exists"
                 /\ UNCHANGED session
            ELSE /\ resp' = [kind |-> "redirect", anchor |-> RedirectAnchor(FALSE)]
                 /\ session' = SessionSet(session, [search_form_data |-> FormData(p)])
                 /\ UNCHANGED pc
    /\ UNCHANGED <<db, nextId, arg, ret>>

\* the branch under "if qs.exists()": the rows are fetched from the table as
\* it is now, the three charts are drawn one after the other, and the results
\* are stored unless a chart call raised
SearchPostFetch ==
    /\ pc = "exists"
    /\ LET rows == Evaluate(db, Outcomes(db, Filters(post)), 1)
           recipes_data == [i \in DOMAIN rows |-> SummaryRow(rows[i])]
           recipes_df == [i \in DOMAIN rows |-> FrameRow(rows[i])]
           calls == <<Chart("#1", recipes_df), Chart("#2", recipes_df),
                      Chart("#3", recipes_df)>>
       IN  /\ qs' = rows
           /\ \E bar \in get_chart_with_colors("#1", DataFrame(recipes_df), "brand"),
                 pie \in get_chart_with_colors("#2", DataFrame(recipes_df), "brand"),
                 line \in get_chart_with_colors("#3", DataFrame(recipes_df), "brand") :
                 LET made == IF bar.kind # "image" THEN 1
                             ELSE IF pie.kind # "image" THEN 2 ELSE 3
                     last == <<bar, pie, line>>[made]
                 IN  /\ charted' = SubSeq(calls, 1, made)
                     /\ IF last.kind # "image"
                        THEN /\ resp' = [kind |-> "error", exception |-> last.kind]
                             /\ UNCHANGED session
                        ELSE /\ resp' = [kind |-> "redirect",
                                         anchor |-> RedirectAnchor(TRUE)]
                             /\ session' = SessionSet(session,
                                    [search_recipes |-> recipes_data,
                                     search_charts |-> [bar |-> calls[1],
                                                        pie |-> calls[2],
                                                        line |-> calls[3]],
                                     search_form_data |-> FormData(post)])
    /\ pc' = "search"
    /\ UNCHANGED <<db, nextId, post, arg, ret>>

\* another request deletes the i-th recipe of the table
DeleteRecipe(i) ==
    /\ i \in DOMAIN db
    /\ db' = RemoveRow(db, i)
    /\ UNCHANGED <<nextId, session, post, qs, resp, charted, arg, ret, pc>>

NextRace ==
    \/ \E p \in RacePosts : SearchPostExists(p)
    \/ SearchPostFetch
    \/ \E i \in 1..Len(SampleRecipes) : DeleteRecipe(i)

SpecRace == InitRace /\ [][NextRace]_vars

-----------------------------------------------------------------------------
(* Properties of the Recipe model's functions *)

\* C1: for every cooking_time t >= 0 and ingredient count n >= 0,
\* calculate_difficulty returns one of the four labels, never no value:
\* t < 10, n < 4 -> Easy; t < 10, n >= 4 -> Medium; t >= 10, n < 4 ->
\* Intermediate; t >= 10, n >= 4 -> Hard.
C1_DifficultyTable ==
    pc = "calculate_difficulty" =>
        LET t == arg.cooking_time
            n == Len(return_ingredients_as_list(arg.ingredients))
        IN  /\ ret \in {Easy, Medium, Intermediate, Hard}
            /\ (t < 10 /\ n < 4) => ret = Easy
            /\ (t < 10 /\ n >= 4) => ret = Medium
            /\ (t >= 10 /\ n < 4) => ret = Intermediate
            /\ (t >= 10 /\ n >= 4) => ret = Hard

\* the four boundary calls t in {9, 10}, n in {3, 4} have been made; this one
\* is the call with t = 10 and n = 4
C1_Witness ==
    /\ pc = "calculate_difficulty"
    /\ arg.cooking_time = 10
    /\ arg.ingredients = Items(4)
    /\ ret = Hard

\* the positions of the commas of v, and the two ends
CommaPositions(v) == {i \in 1..Len(v) : v[i] = ","}
SegmentStarts(v) == {0} \cup CommaPositions(v)
SegmentEnd(v, b) ==
    CHOOSE e \in CommaPositions(v) \cup {Len(v) + 1} :
        /\ e > b
        /\ \A x \in CommaPositions(v) : x > b => e <= x
\* the segment that starts after position b, without its surrounding whitespace
TrimmedSegment(v, b) ==
    LET inside == {i \in (b + 1)..(SegmentEnd(v, b) - 1) : v[i] \notin Whitespace} IN
    IF inside = {} THEN <<>>
    ELSE LET lo == CHOOSE i \in inside : \A j \in inside : i <= j
             hi == CHOOSE i \in inside : \A j \in inside : i >= j
         IN  SubSeq(v, lo, hi)
KeptStarts(v) == {b \in SegmentStarts(v) : TrimmedSegment(v, b) # <<>>}
\* the start of the j-th kept segment from the left
KeptStart(v, j) ==
    CHOOSE b \in KeptStarts(v) : Cardinality({x \in KeptStarts(v) : x <= b}) = j

\* C3: return_ingredients_as_list returns the empty list for None, the empty
\* and the whitespace-only value, and otherwise the comma-separated segments,
\* trimmed, the empty ones dropped, in their order and with duplicates kept.
C3_ParsedIngredients ==
    pc = "return_ingredients_as_list" =>
        LET v == arg.ingredients IN
        IF v = None \/ \A i \in 1..Len(v) : v[i] \in Whitespace
        THEN ret = <<>>
        ELSE /\ Len(ret) = Cardinality(KeptStarts(v))
             /\ \A j \in 1..Len(ret) : ret[j] = TrimmedSegment(v, KeptStart(v, j))

\* "a, ,a": an empty segment is dropped and the duplicate "a" is kept
C3_Witness ==
    /\ pc = "return_ingredients_as_list"
    /\ arg.ingredients = <<"a", ",", " ", ",", "a">>
    /\ ret = << <<"a">>, <<"a">> >>

-----------------------------------------------------------------------------
(* Properties of the search term translation *)

\* c and d are the same character when letter case is ignored
SameLetter(c, d) ==
    \/ c = d
    \/ \E i \in 1..26 : {c, d} = {UpperCase[i], LowerCase[i]}

\* t occurs in v right after the first `offset` characters, case ignored
OccursAt(t, v, offset) ==
    /\ offset + Len(t) <= Len(v)
    /\ \A i \in 1..Len(t) : SameLetter(v[offset + i], t[i])

OccursIn(t, v) == \E offset \in 0..Len(v) : OccursAt(t, v, offset)

\* t without its leading and trailing whitespace
Trimmed(t) ==
    LET inside == {i \in 1..Len(t) : t[i] \notin Whitespace} IN
    IF inside = {} THEN <<>>
    ELSE SubSeq(t, CHOOSE i \in inside : \A j \in inside : i <= j,
                   CHOOSE i \in inside : \A j \in inside : i >= j)

NoWildcard(t) == \A i \in 1..Len(t) : t[i] \notin {"*", "?"}

\* C8: a term without '*' or '?' is a case-insensitive substring test: it
\* matches a value iff the trimmed term occurs somewhere in the value when
\* letter case is ignored.
C8_PlainTermIsSubstringTest ==
    (pc = "name_filtered" /\ arg.term # None /\ NoWildcard(arg.term)) =>
        (ret = "match" <=> OccursIn(Trimmed(arg.term), arg.value))

\* 'pasta' has been matched against 'Pasta al Pesto'
C8_Witness ==
    /\ pc = "name_filtered"
    /\ arg.term = T_pasta
    /\ arg.value = T_PastaAlPesto
    /\ ret = "match"

\* the characters, other than '*' and '?', that the pattern language reads
\* as operators
PatternOperators == {".", "+", "(", ")", "[", "]", "{", "}", "^", "$", "|", "\\"}
Literal(t) == \A i \in 1..Len(t) : t[i] \notin PatternOperators

\* the one '*' of a term that has exactly one, and no '?'
OnlyStar(t) ==
    /\ Cardinality({i \in 1..Len(t) : t[i] = "*"}) = 1
    /\ \A i \in 1..Len(t) : t[i] # "?"
StarAt(t) == CHOOSE i \in 1..Len(t) : t[i] = "*"
\* x, then any sequence of zero or more characters, then y, somewhere in v
OccursWithGap(x, y, v) ==
    \E i \in 0..Len(v), j \in 0..Len(v) :
        /\ OccursAt(x, v, i)
        /\ j >= i + Len(x)
        /\ OccursAt(y, v, j)

\* C9: 'pasta*' matches 'pasta', 'pastas' and 'pasta-bake' and not 'pizza';
\* '*' stands for any sequence of zero or more characters: a term x*y, x and
\* y made of letters, spaces and commas, matches the values in which x occurs
\* and y occurs anywhere after it.
C9_StarIsAnySequence ==
    pc = "name_filtered" =>
        /\ arg.term = T_pasta_star =>
              /\ arg.value \in {T_pasta, T_pastas, T_pasta_bake} => ret = "match"
              /\ arg.value = T_pizza => ret = "nomatch"
        /\ (arg.term # None /\ OnlyStar(Trimmed(arg.term)) /\ Literal(arg.term)) =>
              LET t == Trimmed(arg.term)
                  x == SubSeq(t, 1, StarAt(t) - 1)
                  y == SubSeq(t, StarAt(t) + 1, Len(t))
              IN  ret = "match" <=> OccursWithGap(x, y, arg.value)

\* 'pasta*' has been matched against 'pasta': the '*' stands for no character
C9_Witness ==
    /\ pc = "name_filtered"
    /\ arg.term = T_pasta_star
    /\ arg.value = T_pasta
    /\ ret = "match"

\* C10: 'pasta?' matches a 6-character value made of 'pasta' plus exactly one
\* more character, and matches neither 'pasta' alone nor 'pastass'.
C10_QuestionMarkIsExactlyOneMore ==
    (pc = "name_filtered" /\ arg.term = T_pasta_q) =>
        /\ (Len(arg.value) = 6 /\ SubSeq(arg.value, 1, 5) = T_pasta) => ret = "match"
        /\ arg.value \in {T_pasta, T_pastass} => ret = "nomatch"

\* C11: as the documentation of process_wildcard_search has it, 'pasta?'
\* matches the name 'pasta' and does not match the name 'pastas'.
C11_QuestionMarkAsDocumented ==
    (pc = "name_filtered" /\ arg.term = T_pasta_q) =>
        /\ arg.value = T_pasta => ret = "match"
        /\ arg.value = T_pastas => ret = "nomatch"

\* C12: in a term with '*' or '?', every other character matches only
\* itself, case ignored, and is never read as a pattern operator: a term x*y
\* matches exactly the values in which x occurs as it is written and y occurs
\* as it is written anywhere after it.
C12_OtherCharactersAreLiteral ==
    (pc = "name_filtered" /\ arg.term # None /\ OnlyStar(Trimmed(arg.term))) =>
        LET t == Trimmed(arg.term)
            x == SubSeq(t, 1, StarAt(t) - 1)
            y == SubSeq(t, StarAt(t) + 1, Len(t))
        IN  ret = "match" <=> OccursWithGap(x, y, arg.value)

\* C13: wildcard translation never fails: process_wildcard_search returns a
\* predicate or None for every term, and applying the translated name or
\* ingredient pattern to a record never ends in an error.
C13_TranslationNeverFails ==
    /\ pc = "translated" => (ret = NoQ \/ ret.lookup \in {"icontains", "iregex"})
    /\ pc \in {"name_filtered", "ingredients_filtered"} => ret \in {"match", "nomatch"}

\* C14: process_wildcard_search returns None for the term None and for the
\* empty term, and a predicate on the name for 'pasta', 'pasta*', 'pasta?'
\* and 'pasta*?'.
C14_NoneOnlyForNoTerm ==
    pc = "translated" =>
        /\ arg.term \in {None, <<>>} => ret = NoQ
        /\ arg.term \in {T_pasta, T_pasta_star, T_pasta_q, T_pasta_star_q} =>
               (ret # NoQ /\ ret.field = "name")

\* the empty term has been translated
C14_Witness ==
    /\ pc = "translated"
    /\ arg.term = <<>>
    /\ ret = NoQ

\* a term whose only wildcards are '?', at least one of them
OnlyQuestionMarks(t) ==
    /\ \E i \in 1..Len(t) : t[i] = "?"
    /\ \A i \in 1..Len(t) : t[i] # "*"
\* the part of v of the length of t after the first `offset` characters is t,
\* case ignored, with any character where t has '?'
FitsAt(t, v, offset) ==
    /\ offset + Len(t) <= Len(v)
    /\ \A i \in 1..Len(t) : t[i] = "?" \/ SameLetter(v[offset + i], t[i])

C6_EveryIngredientTokenMustMatch ==
    (pc = "ingredients_filtered" /\ arg.term # None /\ NoWildcard(arg.term)) =>
        /\ ret = "match" <=>
              \A b \in KeptStarts(arg.term) :
                  OccursIn(TrimmedSegment(arg.term, b), arg.value)
        /\ arg.term = T_tomato_cheese =>
              (ret = "match" <=>
                  OccursIn(T_tomato, arg.value) /\ OccursIn(T_cheese, arg.value))

\* 'tomato,cheese' has been tried on a value that holds 'tomato' and no 'cheese'
C6_Witness ==
    /\ pc = "ingredients_filtered"
    /\ arg.term = T_tomato_cheese
    /\ arg.value = T_ing_salad
    /\ ret = "nomatch"

-----------------------------------------------------------------------------
(* Properties of the store *)

\* the label of the decision table
Label(t, n) ==
    IF t < 10 THEN (IF n < 4 THEN Easy ELSE Medium)
    ELSE (IF n < 4 THEN Intermediate ELSE Hard)

\* C2: after any sequence of create and update saves, every stored recipe's
\* difficulty is the classification of its stored cooking_time and of the
\* number of entries return_ingredients_as_list yields for its stored
\* ingredients; a difficulty supplied by the caller is never stored in its place.
C2_StoredDifficultyIsDerived ==
    /\ \A i \in DOMAIN db :
           db[i].difficulty =
               Label(db[i].cooking_time, Len(return_ingredients_as_list(db[i].ingredients)))
    /\ ret # NoId =>
           \A i \in DOMAIN db :
               (db[i].id = ret /\ arg.difficulty #
                    Label(arg.cooking_time, Len(return_ingredients_as_list(arg.ingredients))))
               => db[i].difficulty # arg.difficulty

\* recipe 1 has been updated, after recipe 2 was created, with the difficulty
\* Hard assigned before the save, and is stored as Easy
C2_Witness ==
    /\ Len(db) = 2
    /\ ret = 1
    /\ arg.difficulty = Hard
    /\ db[1].difficulty = Easy

-----------------------------------------------------------------------------
(* Properties of the search view *)

Given(v) == v # None /\ v # <<>>

\* the number a text of decimal digits, whitespace around it, stands for
RECURSIVE DecimalNumber(_)
DecimalNumber(d) ==
    IF d = <<>> THEN 0
    ELSE 10 * DecimalNumber(SubSeq(d, 1, Len(d) - 1))
         + (CHOOSE n \in 0..9 : Digits[n + 1] = d[Len(d)])

IsDecimal(text) ==
    /\ Trimmed(text) # <<>>
    /\ \A i \in 1..Len(Trimmed(text)) : \E n \in 0..9 : Digits[n + 1] = Trimmed(text)[i]

\* what a term asks of a value: a term without wildcard occurs in it; of a
\* term x*y, x occurs and y occurs after it
TermMatches(term, value) ==
    LET t == Trimmed(term) IN
    IF NoWildcard(t) THEN OccursIn(t, value)
    ELSE OccursWithGap(SubSeq(t, 1, StarAt(t) - 1), SubSeq(t, StarAt(t) + 1, Len(t)), value)

\* the terms of the requests are of these two shapes
PlainOrOneStar(term) == NoWildcard(term) \/ OnlyStar(Trimmed(term))

Satisfies(recipe, p) ==
    /\ Given(p.recipe_name) => TermMatches(p.recipe_name, recipe.name)
    /\ Given(p.ingredients) =>
           \A b \in KeptStarts(p.ingredients) :
               TermMatches(TrimmedSegment(p.ingredients, b), recipe.ingredients)
    /\ Given(p.cooking_time_max) =>
           recipe.cooking_time <= DecimalNumber(Trimmed(p.cooking_time_max))
    /\ Given(p.difficulty) => recipe.difficulty = p.difficulty

Rows(result) == {result[i] : i \in DOMAIN result}

\* C4: with search_action 'search' the result set is exactly the stored
\* recipes that satisfy every supplied criterion at once (name term, every
\* ingredient token, cooking_time <= cooking_time_max, difficulty equal to
\* the label); an absent or empty criterion constrains nothing.
C4_SearchIsConjunctionOfCriteria ==
    (/\ post # NoPost
     /\ post.search_action = "search"
     /\ Given(post.cooking_time_max) => IsDecimal(post.cooking_time_max)
     /\ Given(post.recipe_name) => PlainOrOneStar(post.recipe_name)
     /\ Given(post.ingredients) => PlainOrOneStar(post.ingredients))
    => /\ Rows(qs) = {db[i] : i \in {j \in DOMAIN db : Satisfies(db[j], post)}}
       /\ Cardinality(Rows(qs)) = Len(qs)

\* the fixture has been searched by name 'pasta*', cooking_time_max 10 and
\* difficulty Hard at once: Pasta al Pesto, which takes 10 minutes, is the result
C4_Witness ==
    /\ db = FixtureTable
    /\ post = [NoCriteria EXCEPT !.recipe_name = T_pasta_star,
                                 !.cooking_time_max = T_10, !.difficulty = Hard]
    /\ Len(qs) = 1
    /\ qs[1].name = T_PastaAlPesto
    /\ qs[1].cooking_time = 10

\* C5: with search_action 'show_all' the result set is every stored recipe,
\* whatever recipe_name, ingredients, cooking_time_max and difficulty come
\* with the request.
C5_ShowAllIgnoresCriteria ==
    (post # NoPost /\ post.search_action = "show_all") => qs = db

\* show_all has been posted with all four criteria on the fixture, none of
\* whose recipes satisfies them all
C5_Witness ==
    /\ db = FixtureTable
    /\ post = [search_action |-> "show_all", recipe_name |-> T_pasta_star,
               ingredients |-> T_tomato, cooking_time_max |-> T_10,
               difficulty |-> Hard]
    /\ Len(qs) = 3

NamesOf(result) == {result[i].name : i \in DOMAIN result}

\* C7: on the three recipes Pasta al Pesto (10), Pizza Margherita (5) and
\* Summer Salad (15), the name term 'pasta*' yields exactly the first, the
\* ingredients term 'tomato' the second and third, cooking_time_max 10 the
\* first and second.
C7_FixtureSearches ==
    db = FixtureTable =>
        /\ post = [NoCriteria EXCEPT !.recipe_name = T_pasta_star] =>
               (NamesOf(qs) = {T_PastaAlPesto} /\ Len(qs) = 1)
        /\ post = [NoCriteria EXCEPT !.ingredients = T_tomato] =>
               (NamesOf(qs) = {T_PizzaMargherita, T_SummerSalad} /\ Len(qs) = 2)
        /\ post = [NoCriteria EXCEPT !.cooking_time_max = T_10] =>
               (NamesOf(qs) = {T_PastaAlPesto, T_PizzaMargherita} /\ Len(qs) = 2)

\* the search by cooking_time_max 10 has been made on the fixture
C7_Witness ==
    /\ db = FixtureTable
    /\ post = [NoCriteria EXCEPT !.cooking_time_max = T_10]
    /\ Len(qs) = 2

\* C15: a search whose cooking_time_max is not an integer is turned down as
\* a validation failure: the request never ends in an unhandled error.
C15_NonNumericTimeIsNoCrash ==
    (/\ post # NoPost
     /\ post.search_action = "search"
     /\ Given(post.cooking_time_max)
     /\ ~IsDecimal(post.cooking_time_max))
    => resp.kind # "error"

\* the summary rows of the last search, as the session holds them for the page
SummaryRows == session["search_recipes"]

\* C16: for a result set that is not empty the view builds one summary row
\* per recipe, in the order of the result set, each with the ingredient_count
\* return_ingredients_as_list gives for the recipe's ingredients; the table
\* the charts are drawn from holds the same rows in the same order.
C16_OneSummaryRowPerRecipe ==
    (resp.kind = "redirect" /\ resp.anchor = "#search-results") =>
        /\ Len(SummaryRows) = Len(qs)
        /\ \A i \in DOMAIN qs :
               /\ SummaryRows[i].id = qs[i].id
               /\ SummaryRows[i].name = qs[i].name
               /\ SummaryRows[i].ingredient_count =
                      Len(return_ingredients_as_list(qs[i].ingredients))
        /\ Len(charted) = 3
        /\ \A k \in DOMAIN charted :
               /\ Len(charted[k].data) = Len(qs)
               /\ \A i \in DOMAIN qs :
                      /\ charted[k].data[i].id = SummaryRows[i].id
                      /\ charted[k].data[i].ingredient_count = SummaryRows[i].ingredient_count

\* every recipe has been asked for on the table of the two test recipes: the
\* one with "Ingredient1, , Ingredient2,  , Ingredient3" has the count 3
C16_Witness ==
    /\ resp.kind = "redirect"
    /\ resp.anchor = "#search-results"
    /\ Len(qs) = 2
    /\ qs[1].ingredients = T_ing_with_empty
    /\ SummaryRows[1].ingredient_count = 3
    /\ SummaryRows[2].ingredient_count = 0

\* C17: the recipes value handed to the page after a search with no match
\* is an empty list, not None.
C17_NoMatchGivesEmptyList ==
    (/\ post # NoPost
     /\ Given(post.cooking_time_max) => IsDecimal(post.cooking_time_max)
     /\ qs = <<>>
     /\ resp.kind = "page")
    => resp.recipes = PyList(<<>>)

C27_PostIsAnsweredByRedirect ==
    [][/\ (\E p \in PostData : SearchPost(p)) =>
              /\ resp'.kind = "redirect"
              /\ resp'.anchor = (IF qs' # <<>> THEN "#search-results"
                                              ELSE "#no-recipes-found")
       /\ (resp'.kind = "page" /\ resp'.recipes # PyNone) =>
              /\ "search_recipes" \in DOMAIN session
              /\ resp'.recipes = PyList(session["search_recipes"])
              /\ resp'.charts = session["search_charts"]]_vars

\* the page the latest POST of the session calls for: its result rows, the
\* charts of those rows and its criteria
PageOf(p, rows) ==
    [kind |-> "page",
     recipes |-> PyList([i \in DOMAIN rows |-> SummaryRow(rows[i])]),
     charts |-> [bar  |-> Chart("#1", [i \in DOMAIN rows |-> FrameRow(rows[i])]),
                 pie  |-> Chart("#2", [i \in DOMAIN rows |-> FrameRow(rows[i])]),
                 line |-> Chart("#3", [i \in DOMAIN rows |-> FrameRow(rows[i])])],
     form |-> [initial |-> FormData(p)]]

\* C28: the results, the charts and the pre-filled criteria a GET renders
\* all come from the most recent POST of the session; a GET after a POST
\* with no match renders no results of an earlier POST.
C28_PageComesFromLatestPost ==
    (/\ resp.kind = "page"
     /\ resp.recipes # PyNone
     /\ post # NoPost
     /\ Given(post.cooking_time_max) => IsDecimal(post.cooking_time_max))
    => (qs # <<>> /\ resp = PageOf(post, qs))

SessionKeys == {"search_recipes", "search_charts", "search_form_data"}

\* the page of a request that has nothing to show
EmptyPage ==
    [kind |-> "page", recipes |-> PyNone, charts |-> PyNone,
     form |-> [initial |-> <<>>]]

\* C29: the first GET after a POST consumes what the POST stored: once a
\* page has been rendered none of search_recipes, search_charts and
\* search_form_data is in the session, and a GET that follows a GET renders
\* no results, no charts and an unfilled form.
C29_GetConsumesTheSession ==
    /\ [](resp.kind = "page" => SessionKeys \cap DOMAIN session = {})
    /\ [][(resp.kind = "page" /\ resp'.kind = "page") =>
             (resp' = resp \/ resp' = EmptyPage)]_vars

\* C30: when recipes are deleted by another request between qs.exists() and
\* the retrieval of the rows, recipe_search still never calls chart
\* generation with an empty table and never stores an empty result list under
\* search_recipes.
C30_DeletionNeverEmptiesTheCharts ==
    /\ \A k \in DOMAIN charted : charted[k].data # <<>>
    /\ "search_recipes" \in DOMAIN session => session["search_recipes"] # <<>>

-----------------------------------------------------------------------------
(* Properties of chart generation *)

KnownChartTypes == {"#1", "#2", "#3"}

\* what each chart shows: the bar chart cooking time by name, the pie chart
\* the difficulties, the line chart cooking time by ingredient count
Shows(kind) ==
    IF kind = "#1" THEN {"name", "cooking_time"}
    ELSE IF kind = "#2" THEN {"difficulty"}
    ELSE {"ingredient_count", "cooking_time"}

C21_UnknownKindReturnsImage ==
    (pc = "get_chart" /\ arg.chart_type \notin KnownChartTypes) =>
        /\ ret.kind = "image"
        /\ ret.chart_type \notin KnownChartTypes

\* get_chart('invalid', data) has been called on a table without columns
C21_Witness ==
    /\ pc = "get_chart"
    /\ arg.chart_type = "invalid"
    /\ arg.data = EmptyFrame
    /\ ret.kind = "image"

-----------------------------------------------------------------------------
(* Properties of validation *)

\* a text that is empty or made of whitespace only
IsBlank(v) == v # None /\ \A i \in 1..Len(v) : v[i] \in Whitespace

\* C22: full_clean rejects a recipe whose cooking_time is below 1 or above
\* 1440, whose name is empty or whitespace-only or whose ingredients is empty
\* or whitespace-only, and accepts a recipe with cooking_time 1 or 1440, a
\* name that is not blank and has at most 120 characters, and ingredients
\* that are not blank.
C22_FullCleanRejectsAndAccepts ==
    pc = "full_clean" =>
        /\ (\/ arg.cooking_time < 1
            \/ arg.cooking_time > 1440
            \/ IsBlank(arg.name)
            \/ IsBlank(arg.ingredients)) => ret.kind = "ValidationError"
        /\ (/\ arg.cooking_time \in {1, 1440}
            /\ arg.name # None /\ ~IsBlank(arg.name) /\ Len(arg.name) <= 120
            /\ arg.ingredients # None /\ ~IsBlank(arg.ingredients)) => ret.kind = "ok"

\* a recipe with a name of whitespace only, which only Recipe.clean refuses,
\* has been validated
C22_Witness ==
    /\ pc = "full_clean"
    /\ arg.name = T_blank
    /\ arg.ingredients = T_Test
    /\ arg.cooking_time = 1440
    /\ ret = ValidationError({"name"})

\* C24: whenever a recipe passes Recipe.clean, its ingredients parse with
\* return_ingredients_as_list to a list that is not empty.
C24_CleanIngredientsParseNonEmpty ==
    (pc = "clean" /\ ret = Valid) => return_ingredients_as_list(arg.ingredients) # <<>>

\* C23: the store rejects a record that fails the non-empty check: after any
\* sequence of saves no stored recipe has a name or an ingredients string
\* that is empty after trimming.
C23_StoreHoldsNoBlankRecord ==
    \A i \in DOMAIN db : ~IsBlank(db[i].name) /\ ~IsBlank(db[i].ingredients)

-----------------------------------------------------------------------------
(* Properties of the access to the views *)

\* the session has logged in successfully and has not logged out since
HasLoggedIn == ret = "logged_in"

\* C25: in any sequence of login attempts, logouts and page requests, a
\* request to the list, detail or search view is redirected to the login page
\* iff the session has not logged in successfully or has logged out since,
\* and otherwise renders the page (of a recipe that exists, for the detail
\* view); the home view is served without authentication.
C25_ProtectedViewsNeedLogin ==
    /\ arg.view \in {"recipe-list", "recipe-detail", "recipe-search"} =>
           /\ ~HasLoggedIn <=> resp = [kind |-> "redirect", to |-> "login", next |-> arg.view]
           /\ (HasLoggedIn /\ (arg.view = "recipe-detail" => arg.pk \in 1..3)) =>
                  resp = [kind |-> "page", view |-> arg.view]
    /\ arg.view = "home" => resp = [kind |-> "page", view |-> "home"]

\* the search view has been asked for after a login and the logout that followed
C25_Witness ==
    /\ arg.view = "recipe-search"
    /\ ret = "logged_out"
    /\ resp = [kind |-> "redirect", to |-> "login", next |-> "recipe-search"]

====
